---- MODULE Spec2Model ----
(***************************************************************************)
(* A model of the filter abstraction and convolution engine of the image   *)
(* editor: BaseFilter.apply_filter (shape handling and clipping),          *)
(* ConvFilter (geometry, lazily computed pad), StaticFilter (fixed         *)
(* kernels) and DynamicFilter (per-region function), and of the catalog    *)
(* filters Brightness, Box, Sobel, Retro and Emboss, and of the pipeline    *)
(* run_from_config.                                                        *)
(*                                                                         *)
(* Spec follows one filter instance from its construction through any      *)
(* sequence of apply_filter calls; PipelineSpec follows one run of          *)
(* run_from_config statement by statement.  Samples are integers: sums of   *)
(* products with integer weights are exact, and the mean of Box and the    *)
(* square root of Sobel are kept to their integer part.                    *)
(***************************************************************************)
EXTENDS Integers, Sequences, FiniteSets, TLC

VARIABLES
    phase,    \* "new" (no constructor called yet), "ready", "failed"
    args,     \* the arguments the constructor was called with
    flt,      \* the instance's fields (None where never assigned)
    img,      \* the image passed to the apply_filter call that just ended
    res,      \* what self.apply returned in that call (before the final clip)
    out,      \* what apply_filter returned
    err,      \* the exception raised by the last operation, or "none"
    warned,   \* warnings.warn was called by the constructor
    pc,       \* run_from_config: "idle", "loop", "built", "show", "done", "aborted"
    config,   \* the configuration of the run, the input image included
    idx,      \* the number of stages of the run that are completed
    image_np, \* the image the run holds
    filt,     \* the filter instance the run built last
    raised,   \* the exception that ended the run, or "none"
    events    \* what the run did so far, in order

(* the variables of one filter instance, and those of a pipeline run *)
instance == <<phase, args, flt, img, res, out, err, warned>>
run == <<pc, config, idx, image_np, filt, raised, events>>

vars == <<phase, args, flt, img, res, out, err, warned,
          pc, config, idx, image_np, filt, raised, events>>

-----------------------------------------------------------------------------
(* Bounds of the model *)

MaxExtent == 3      \* images have 1..MaxExtent rows and columns
MaxStages == 3      \* a pipeline has 0..MaxStages operations

(* Python's None for a field or argument that holds a number otherwise *)
None == -1

-----------------------------------------------------------------------------
(* Values with their Python type: isinstance checks look at ty *)

I(n) == [ty |-> "int", v |-> n]
F(n) == [ty |-> "float", v |-> n]
S == [ty |-> "str", v |-> 0]

NoPad == <<>>       \* pad=None
NoRadius == <<>>    \* kernel_radius not among the keyword arguments

-----------------------------------------------------------------------------
(* Arrays.  An array of rank 3 is [h, w, c, at] with at[r][x][ch]; the      *)
(* shape of an image is kept beside it so that newaxis and squeeze change  *)
(* the shape and leave the samples alone.                                  *)

Arr(h, w, c, f(_, _, _)) ==
    [h |-> h, w |-> w, c |-> c,
     at |-> [r \in 1..h |-> [x \in 1..w |-> [ch \in 1..c |-> f(r, x, ch)]]]]

NoArr == [h |-> 0, w |-> 0, c |-> 0, at |-> <<>>]

Samples(a) == {a.at[r][x][ch] : r \in 1..a.h, x \in 1..a.w, ch \in 1..a.c}

RECURSIVE SumFirst(_, _)
SumFirst(s, n) == IF n = 0 THEN 0 ELSE s[n] + SumFirst(s, n - 1)

(* np.sum / the einsum reduction over a flattened list of products *)
SeqSum(s) == SumFirst(s, Len(s))

-----------------------------------------------------------------------------
(* Kernels: numpy arrays [shape, a].  A kernel of rank 3 has shape          *)
(* <<rows, cols, channels>>.                                               *)

Kernel(kh, kw, kc, f(_, _, _)) == [shape |-> <<kh, kw, kc>>, a |-> Arr(kh, kw, kc, f)]

KOnes ==                \* all weights 1: sums overflow 255
    LET w(k, l, ch) == 1 IN Kernel(3, 3, 1, w)
KSobelX ==              \* SOBEL_KERNELS[3][0]: negative weights
    LET w(k, l, ch) == (l - 2) * (IF k = 2 THEN 2 ELSE 1) IN Kernel(3, 3, 1, w)
KPerChannel ==          \* three channels, a different centre weight on each
    LET w(k, l, ch) == IF k = 2 /\ l = 2 THEN ch - 1 ELSE 0 IN Kernel(3, 3, 3, w)
KWide ==                \* 3 rows, 5 columns
    LET w(k, l, ch) == IF l = 5 THEN 1 ELSE 0 IN Kernel(3, 5, 1, w)
KOne ==                 \* the 1x1 kernel of value 1
    LET w(k, l, ch) == 1 IN Kernel(1, 1, 1, w)
KEven ==                \* shape (2, 3, 1)
    LET w(k, l, ch) == 1 IN Kernel(2, 3, 1, w)
KTwoChannels ==         \* channel count 2
    LET w(k, l, ch) == 1 IN Kernel(3, 3, 2, w)
KFlat ==                \* a rank-2 array
    [shape |-> <<3, 3>>, a |-> KOnes.a]

KSobelY ==              \* SOBEL_KERNELS[3][1]
    LET w(k, l, ch) == (k - 2) * (IF l = 2 THEN 2 ELSE 1) IN Kernel(3, 3, 1, w)
KSobel5X ==             \* SOBEL_KERNELS[5][0]
    LET w(k, l, ch) == (l - 3) * (IF k = 3 THEN 2 ELSE 1) IN Kernel(5, 5, 1, w)
KSobel5Y ==             \* SOBEL_KERNELS[5][1]
    LET w(k, l, ch) == (k - 3) * (IF l = 3 THEN 2 ELSE 1) IN Kernel(5, 5, 1, w)

(* np.full((rows, cols), 1/(cols*rows))[:, :, np.newaxis]: every weight is  *)
(* 1/den, kept as the numerator 1 and the denominator den *)
UniformKernel(rows, cols) ==
    LET w(k, l, ch) == 1
    IN [shape |-> <<rows, cols, 1>>, a |-> Arr(rows, cols, 1, w), den |-> cols * rows]

ValidKernelLists ==
    {<<KSobelX>>, <<KPerChannel>>, <<KWide>>, <<KSobelX, KOnes>>}

InvalidKernelLists ==
    {<<>>, <<KOne>>, <<KEven>>, <<KTwoChannels>>, <<KFlat>>,
     <<KOnes, KWide>>, <<KOnes, KTwoChannels>>}

KernelLists == ValidKernelLists \cup InvalidKernelLists

-----------------------------------------------------------------------------
(* Images: numpy arrays [shape, dtype, a] of dtype uint8.  A rank-2 image  *)
(* of shape <<h, w>> holds its samples as one channel.                      *)

(* the accepted shapes of an image of h rows and w columns: rank 2, rank 3  *)
(* with one channel, rank 3 with three channels *)
Shapes(h, w) == {<<h, w>>, <<h, w, 1>>, <<h, w, 3>>}

Sample(pattern, r, x, ch) ==
    IF pattern = "flat" THEN 100 ELSE (37 * r + 101 * x + 59 * ch) % 256

Image(shape, pattern) ==
    LET f(r, x, ch) == Sample(pattern, r, x, ch)
    IN [shape |-> shape, dtype |-> "uint8",
        a |-> Arr(shape[1], shape[2], IF Len(shape) = 3 THEN shape[3] ELSE 1, f)]

(* the extents of the scenarios: 5x5 and 10x10 *)
ScenarioImages == {Image(<<5, 5, 1>>, "flat"), Image(<<10, 10>>, "grad")}

(* the samples an image of a shape is given: flat for rank 3 with one       *)
(* channel, graded for the others *)
PatternOf(shape) == IF Len(shape) = 3 /\ shape[3] = 1 THEN "flat" ELSE "grad"

SmallShapes == UNION {Shapes(h, w) : h \in 1..MaxExtent, w \in 1..MaxExtent}

(* arrays of a rank apply_filter rejects *)
BadRankImages ==
    {[shape |-> <<4>>, dtype |-> "uint8", a |-> NoArr],
     [shape |-> <<2, 2, 3, 1>>, dtype |-> "uint8", a |-> NoArr]}

Images ==
    {Image(sh, PatternOf(sh)) : sh \in SmallShapes}
    \cup ScenarioImages
    \cup BadRankImages

-----------------------------------------------------------------------------
(* ConvFilter._validate_params *)

IsPositiveInt(x) == x.ty = "int" /\ x.v > 0
IsNonNegativeInt(x) == x.ty = "int" /\ x.v >= 0
IsNumber(x) == x.ty \in {"int", "float"}

(* the check of bias left out *)
ValidateParamsBiasUnchecked(kernel_radius, stride, pad, pad_val, bias) ==
    IF ~(Len(kernel_radius) = 2 /\ \A i \in 1..2 : IsPositiveInt(kernel_radius[i]))
    THEN "ValueError"
    ELSE IF ~(Len(stride) = 2 /\ \A i \in 1..2 : IsPositiveInt(stride[i]))
    THEN "ValueError"
    ELSE IF pad # NoPad /\ ~(Len(pad) = 2 /\ \A i \in 1..2 : IsNonNegativeInt(pad[i]))
    THEN "ValueError"
    ELSE IF ~IsNumber(pad_val) THEN "TypeError"
    ELSE "none"

ValidateParams(kernel_radius, stride, pad, pad_val, bias) ==
    IF ~(Len(kernel_radius) = 2 /\ \A i \in 1..2 : IsPositiveInt(kernel_radius[i]))
    THEN "ValueError"
    ELSE IF ~(Len(stride) = 2 /\ \A i \in 1..2 : IsPositiveInt(stride[i]))
    THEN "ValueError"
    ELSE IF pad # NoPad /\ ~(Len(pad) = 2 /\ \A i \in 1..2 : IsNonNegativeInt(pad[i]))
    THEN "ValueError"
    ELSE IF ~IsNumber(pad_val) THEN "TypeError"
    ELSE IF ~IsNumber(bias) THEN "TypeError"
    ELSE "none"

(* the check of odd rows and columns left out *)
ValidateKernelsAnyParity(kernels) ==
    IF Len(kernels) = 0 THEN "ValueError"
    ELSE IF Len(kernels[1].shape) # 3 THEN "ValueError"
    ELSE IF \E i \in 1..Len(kernels) :
               \/ Len(kernels[i].shape) # 3
               \/ kernels[i].shape[1] # kernels[1].shape[1]
               \/ kernels[i].shape[2] # kernels[1].shape[2]
               \/ kernels[i].shape[3] \notin {1, 3}
         THEN "ValueError"
         ELSE "none"

(* StaticFilter._validate_kernels *)
ValidateKernels(kernels) ==
    IF Len(kernels) = 0 THEN "ValueError"                 \* IndexError, re-raised
    ELSE IF Len(kernels[1].shape) # 3 THEN "ValueError"
    ELSE LET kh == kernels[1].shape[1]
             kw == kernels[1].shape[2]
         IN IF kh % 2 = 0 \/ kw % 2 = 0 THEN "ValueError"
            ELSE IF \E i \in 1..Len(kernels) :
                       \/ Len(kernels[i].shape) # 3
                       \/ kernels[i].shape[1] # kh
                       \/ kernels[i].shape[2] # kw
                       \/ kernels[i].shape[3] \notin {1, 3}
                 THEN "ValueError"
                 ELSE "none"

-----------------------------------------------------------------------------
(* Constructors.  Each returns the fields assigned so far, the exception   *)
(* raised ("none" when the constructor returned) and whether it warned.     *)

NoFilter ==
    [kind |-> "none", kernels |-> <<>>, alpha |-> None, block_size |-> None,
     radius_y |-> None, radius_x |-> None,
     kernel_height |-> None, kernel_width |-> None,
     stride_y |-> None, stride_x |-> None,
     pad_val |-> None, bias |-> None, keep_dims_with_pad |-> FALSE,
     pad_y |-> None, pad_x |-> None]

(* ConvFilter.__init__ *)
ConvInit(self, kernel_radius, stride, pad, pad_val, bias, keep_dims) ==
    LET e == ValidateParams(kernel_radius, stride, pad, pad_val, bias)
    IN IF e # "none" THEN [flt |-> self, err |-> e, warned |-> FALSE]
       ELSE [flt |-> [self EXCEPT
                        !.radius_y = kernel_radius[1].v,
                        !.radius_x = kernel_radius[2].v,
                        !.kernel_height = 2 * kernel_radius[1].v + 1,
                        !.kernel_width = 2 * kernel_radius[2].v + 1,
                        !.stride_y = stride[1].v,
                        !.stride_x = stride[2].v,
                        !.pad_val = pad_val.v,
                        !.bias = bias.v,
                        !.keep_dims_with_pad = keep_dims,
                        !.pad_y = IF pad # NoPad THEN pad[1].v ELSE None,
                        !.pad_x = IF pad # NoPad THEN pad[2].v ELSE None],
             err |-> "none",
             warned |-> (pad # NoPad /\ keep_dims)]

(* Python's tuple comparison kwargs['kernel_radius'] != expected_radius *)
SameTuple(given, expected) ==
    /\ Len(given) = Len(expected)
    /\ \A i \in 1..Len(given) : given[i].ty # "str" /\ given[i].v = expected[i]

(* StaticFilter.__init__ *)
StaticInit(kernels, kw) ==
    LET e == ValidateKernels(kernels)
        self == [NoFilter EXCEPT !.kind = "static"]
    IN IF e # "none" THEN [flt |-> self, err |-> e, warned |-> FALSE]
       ELSE LET withKernels == [self EXCEPT !.kernels = kernels]
                kh == kernels[1].shape[1]
                kw_ == kernels[1].shape[2]
                expected_radius == <<kh \div 2, kw_ \div 2>>
                kernel_radius == IF kw.kernel_radius = NoRadius
                                 THEN <<I(expected_radius[1]), I(expected_radius[2])>>
                                 ELSE kw.kernel_radius
            IN IF ~SameTuple(kernel_radius, expected_radius)
               THEN [flt |-> withKernels, err |-> "ValueError", warned |-> FALSE]
               ELSE ConvInit(withKernels, kernel_radius, kw.stride, kw.pad,
                             kw.pad_val, kw.bias, kw.keep_dims)

(* DynamicFilter.__init__, for a subclass that keeps one kernel and whose   *)
(* apply_region returns compute_convolution(region, kernel)                 *)
DynamicInit(kernel, kw) ==
    LET self == [NoFilter EXCEPT !.kind = "dynamic"]
        kernel_radius == IF kw.kernel_radius = NoRadius THEN <<I(1), I(1)>>
                         ELSE kw.kernel_radius
        r == ConvInit(self, kernel_radius, kw.stride, kw.pad,
                      kw.pad_val, kw.bias, kw.keep_dims)
    IN IF r.err # "none" THEN r
       ELSE [r EXCEPT !.flt.kernels = <<kernel>>]

(* Brightness.__init__ *)
BrightnessInit(alpha) ==
    LET self == [NoFilter EXCEPT !.kind = "brightness"]
    IN IF ~(-100 <= alpha /\ alpha <= 100)
       THEN [flt |-> self, err |-> "ValueError", warned |-> FALSE]
       ELSE [flt |-> [self EXCEPT !.alpha = alpha], err |-> "none", warned |-> FALSE]

(* Box.__init__.  alpha is given in tenths (None when absent), so that      *)
(* int(round(10 * alpha)) is alpha itself.                                  *)
BoxInit(alpha, width, height, keep_dims, kw) ==
    LET base_radius_y == 10
        base_radius_x == 10
        failed == [flt |-> [NoFilter EXCEPT !.kind = "static"],
                   err |-> "ValueError", warned |-> FALSE]
        build(radius_y, radius_x) ==
            LET kernel_height == 2 * radius_y + 1
                kernel_width == 2 * radius_x + 1
            IN StaticInit(<<UniformKernel(kernel_height, kernel_width)>>,
                          [kw EXCEPT !.keep_dims = keep_dims])
    IN IF alpha # None
       THEN IF ~(0 < alpha /\ alpha <= 10) THEN failed
            ELSE build(IF alpha > 1 THEN alpha ELSE 1, IF alpha > 1 THEN alpha ELSE 1)
       ELSE IF ~(/\ 1 <= height /\ height <= 2 * base_radius_x + 1
                 /\ 1 <= width /\ width <= 2 * base_radius_y + 1)
            THEN failed
            ELSE IF height % 2 = 0 \/ width % 2 = 0 THEN failed
            ELSE build(width \div 2, height \div 2)

(* Sobel.get_sobel_kernels: SOBEL_KERNELS[size], or <<>> for a KeyError *)
GetSobelKernels(size) ==
    IF size = 3 THEN <<KSobelX, KSobelY>>
    ELSE IF size = 5 THEN <<KSobel5X, KSobel5Y>>
    ELSE <<>>

(* Sobel.__init__ *)
SobelInit(size, keep_dims, kw) ==
    LET ks == GetSobelKernels(size)
    IN IF ks = <<>>
       THEN [flt |-> [NoFilter EXCEPT !.kind = "sobel"],
             err |-> "ValueError", warned |-> FALSE]
       ELSE [StaticInit(ks, [kw EXCEPT !.keep_dims = keep_dims])
                EXCEPT !.flt.kind = "sobel"]

(* emboss.DIRECTION_KERNELS *)
DIRECTION_KERNELS ==
    [northeast |-> <<<<-2, -1, 0>>, <<-1, 1, 1>>, <<0, 1, 2>>>>,
     southwest |-> <<<<2, 1, 0>>, <<1, -1, -1>>, <<0, -1, -2>>>>,
     northwest |-> <<<<0, 1, 2>>, <<-1, 1, 1>>, <<-2, -1, 0>>>>,
     southeast |-> <<<<0, -1, -2>>, <<1, 1, -1>>, <<2, 1, 0>>>>,
     top |-> <<<<1, 1, 1>>, <<0, 0, 0>>, <<-1, -1, -1>>>>,
     left |-> <<<<1, 0, -1>>, <<1, 0, -1>>, <<1, 0, -1>>>>]

(* Emboss.__init__, for a whole-numbered strength *)
EmbossInit(strength, direction, kw) ==
    IF direction \notin DOMAIN DIRECTION_KERNELS
    THEN [flt |-> [NoFilter EXCEPT !.kind = "static"],
          err |-> "ValueError", warned |-> FALSE]
    ELSE LET base_kernel(k, l, ch) == DIRECTION_KERNELS[direction][k][l] * strength
         IN StaticInit(<<Kernel(3, 3, 1, base_kernel)>>, kw)

(* Python's a & b on naturals *)
RECURSIVE BitAnd(_, _)
BitAnd(a, b) ==
    IF a = 0 \/ b = 0 THEN 0
    ELSE (a % 2) * (b % 2) + 2 * BitAnd(a \div 2, b \div 2)

(* Retro.__init__.  The fields of self.blur, a Box, are kept in the         *)
(* instance's own record.                                                   *)
RetroInit(block_size, kw) ==
    IF block_size <= 0 \/ BitAnd(block_size, block_size - 1) # 0
    THEN [flt |-> [NoFilter EXCEPT !.kind = "retro"],
          err |-> "ValueError", warned |-> FALSE]
    ELSE LET kernel_size == block_size * 2 + 1
             blur == BoxInit(None, kernel_size, kernel_size, FALSE,
                             [kw EXCEPT !.stride = <<I(block_size), I(block_size)>>])
         IN [blur EXCEPT !.flt.kind = "retro", !.flt.block_size = block_size]

-----------------------------------------------------------------------------
(* Applying a filter.  A step of the computation returns [err, a]: the     *)
(* exception raised, or "none" and the array.                               *)

Ok(a) == [err |-> "none", a |-> a]
Raise(e) == [err |-> e, a |-> NoArr]

(* np.clip(v, 0, 255) on one sample *)
Clip(v) == IF v < 0 THEN 0 ELSE IF v > 255 THEN 255 ELSE v

(* the clip left out *)
ClipArrLeftOut(a) == a

ClipArr(a) == LET f(r, x, ch) == Clip(a.at[r][x][ch]) IN Arr(a.h, a.w, a.c, f)

(* ndarray.astype on one integral sample: uint8 wraps modulo 2^8 *)
AsType(v, dtype) == IF dtype = "uint8" THEN v % 256 ELSE v

(* ConvFilter.pad_image: constant padding of the row and column axes *)
PadImage(f, a) ==
    LET p(r, x, ch) ==
            IF /\ r > f.pad_y /\ r <= f.pad_y + a.h
               /\ x > f.pad_x /\ x <= f.pad_x + a.w
            THEN a.at[r - f.pad_y][x - f.pad_x][ch]
            ELSE f.pad_val
    IN Arr(a.h + 2 * f.pad_y, a.w + 2 * f.pad_x, a.c, p)

(* the number of windows rounded down *)
StridedLenRoundedDown(n, step) == n \div step

(* len(range(n)[::step]): the number of windows kept by windows[::stride] *)
StridedLen(n, step) == (n + step - 1) \div step

(* the sum over a kh x kw window whose top-left sample is (r0+1, x0+1),     *)
(* of the element-wise products with the kernel, on channel ch              *)
WindowDot(a, kernel, kh, kw, r0, x0, ch) ==
    LET kch == IF kernel.shape[3] = 1 THEN 1 ELSE ch    \* broadcast of (kh, kw, 1)
        prod == [i \in 1..(kh * kw) |->
                    LET k == ((i - 1) \div kw) + 1
                        l == ((i - 1) % kw) + 1
                    IN a.at[r0 + k][x0 + l][ch] * kernel.a.at[k][l][kch]]
    IN IF "den" \in DOMAIN kernel
       THEN SeqSum(prod) \div kernel.den     \* weights 1/den: the mean
       ELSE SeqSum(prod)

(* StaticFilter._apply_single_filter *)
ApplySingleFilter(f, a, kernel) ==
    IF a.h < f.kernel_height \/ a.w < f.kernel_width
    THEN Raise("ValueError")          \* sliding_window_view: window larger than input
    ELSE LET oh == StridedLen(a.h - f.kernel_height + 1, f.stride_y)
             ow == StridedLen(a.w - f.kernel_width + 1, f.stride_x)
             v(y, x, ch) ==
                 Clip(WindowDot(a, kernel, f.kernel_height, f.kernel_width,
                                (y - 1) * f.stride_y, (x - 1) * f.stride_x, ch)
                      + f.bias)
         IN Ok(Arr(oh, ow, a.c, v))

(* StaticFilter.convolve: the kernels from the i-th on, in order *)
RECURSIVE ConvolveFrom(_, _, _)
ConvolveFrom(f, a, i) ==
    IF i > Len(f.kernels) THEN Ok(a)
    ELSE LET step == ApplySingleFilter(f, a, f.kernels[i])
         IN IF step.err # "none" THEN step
            ELSE ConvolveFrom(f, step.a, i + 1)

(* every kernel applied to the padded image, the last result returned *)
StaticConvolveOnInput(f, a) == ApplySingleFilter(f, a, f.kernels[Len(f.kernels)])

StaticConvolve(f, a) == ConvolveFrom(f, a, 1)

(* the bias left out *)
ComputeConvolutionNoBias(f, a, kernel, y, x, ch) ==
    WindowDot(a, kernel, 2 * f.radius_y + 1, 2 * f.radius_x + 1,
              y * f.stride_y, x * f.stride_x, ch)

(* DynamicFilter.compute_convolution on the region of output position      *)
(* (y, x) (0-based), one channel of the returned vector                    *)
ComputeConvolution(f, a, kernel, y, x, ch) ==
    LET center_y == y * f.stride_y + f.radius_y
        center_x == x * f.stride_x + f.radius_x
    IN WindowDot(a, kernel, 2 * f.radius_y + 1, 2 * f.radius_x + 1,
                 center_y - f.radius_y, center_x - f.radius_x, ch)
       + f.bias

(* region * kernel is defined when the region has the kernel's rows and     *)
(* columns (the kernels here have more than one row and column)            *)
RegionFits(f, kernel) ==
    /\ 2 * f.radius_y + 1 = kernel.shape[1]
    /\ 2 * f.radius_x + 1 = kernel.shape[2]

(* DynamicFilter.convolve with apply_region = compute_convolution *)
DynamicConvolve(f, a) ==
    LET out_height == (a.h - f.kernel_height) \div f.stride_y + 1
        out_width == (a.w - f.kernel_width) \div f.stride_x + 1
        v(y, x, ch) == Clip(ComputeConvolution(f, a, f.kernels[1], y - 1, x - 1, ch))
    IN IF out_height < 0 \/ out_width < 0
       THEN Raise("ValueError")       \* np.zeros: negative dimensions
       ELSE IF out_height > 0 /\ out_width > 0 /\ ~RegionFits(f, f.kernels[1])
       THEN Raise("ValueError")       \* region * kernel: shapes do not broadcast
       ELSE Ok(Arr(out_height, out_width, a.c, v))

Convolve(f, a) ==
    IF f.kind = "static" THEN StaticConvolve(f, a) ELSE DynamicConvolve(f, a)

(* the pad of a stride-1 convolution, whatever the stride *)
KeepDimsPadStrideOne(stride, extent, kernel_size) == (kernel_size - 1) \div 2

(* the kernel extent left out of the pad *)
KeepDimsPadKernelLeftOut(stride, extent, kernel_size) ==
    ((stride - 1) * extent) \div 2

(* the pad ConvFilter.apply computes for one axis when keep_dims is set *)
KeepDimsPad(stride, extent, kernel_size) ==
    ((stride - 1) * extent + kernel_size - stride) \div 2

(* the pad computed on every call *)
WithPadEveryCall(f, a) ==
    IF f.keep_dims_with_pad
    THEN [f EXCEPT !.pad_y = KeepDimsPad(f.stride_y, a.h, f.kernel_height),
                   !.pad_x = KeepDimsPad(f.stride_x, a.w, f.kernel_width)]
    ELSE IF f.pad_y = None /\ f.pad_x = None
    THEN [f EXCEPT !.pad_y = 0, !.pad_x = 0]
    ELSE f

(* the instance after the pad step of ConvFilter.apply *)
WithPad(f, a) ==
    IF f.pad_y = None /\ f.pad_x = None
    THEN IF f.keep_dims_with_pad
         THEN [f EXCEPT !.pad_y = KeepDimsPad(f.stride_y, a.h, f.kernel_height),
                        !.pad_x = KeepDimsPad(f.stride_x, a.w, f.kernel_width)]
         ELSE [f EXCEPT !.pad_y = 0, !.pad_x = 0]
    ELSE f

(* ConvFilter.apply: [flt, err, a] *)
ConvApply(f, a) ==
    LET f1 == WithPad(f, a)
        r == Convolve(f1, PadImage(f1, a))
    IN [flt |-> f1, err |-> r.err, a |-> r.a]

(* Brightness.apply *)
BrightnessApply(f, a) ==
    LET v(r, x, ch) == a.at[r][x][ch] + f.alpha
    IN [flt |-> f, err |-> "none", a |-> Arr(a.h, a.w, a.c, v)]

(* the integer part of np.sqrt *)
Isqrt(v) == CHOOSE n \in 0..361 : n * n <= v /\ v < (n + 1) * (n + 1)

(* the gradient magnitude of Sobel.apply, clipped: [flt, err, a] *)
Magnitude(f, Gx, Gy) ==
    LET G(y, x, ch) == Clip(Isqrt(Gx.a.at[y][x][ch] * Gx.a.at[y][x][ch]
                                  + Gy.a.at[y][x][ch] * Gy.a.at[y][x][ch]))
    IN IF Gx.err # "none" THEN [flt |-> f, err |-> Gx.err, a |-> NoArr]
       ELSE IF Gy.err # "none" THEN [flt |-> f, err |-> Gy.err, a |-> NoArr]
       ELSE [flt |-> f, err |-> "none", a |-> Arr(Gx.a.h, Gx.a.w, Gx.a.c, G)]

(* Sobel.apply: both kernels on the image as given *)
SobelApply(f, a) ==
    Magnitude(f, ApplySingleFilter(f, a, f.kernels[1]),
                 ApplySingleFilter(f, a, f.kernels[2]))

(* np.kron(out, np.ones((b, b, 1))): every sample repeated over a b x b block *)
Kron(a, b) ==
    LET v(r, x, ch) == a.at[(r - 1) \div b + 1][(x - 1) \div b + 1][ch]
    IN Arr(a.h * b, a.w * b, a.c, v)

(* the upsampling of Retro.apply, on what self.blur.apply gave: [flt, err, a] *)
Upsampled(r, block_size) ==
    LET self == [r.flt EXCEPT !.kind = "retro"]
    IN IF r.err # "none" THEN [flt |-> self, err |-> r.err, a |-> NoArr]
       ELSE [flt |-> self, err |-> "none", a |-> Kron(r.a, block_size)]

(* Retro.apply: self.blur.apply, then the upsampling *)
RetroApply(f, a) ==
    Upsampled(ConvApply([f EXCEPT !.kind = "static"], a), f.block_size)

(* self.apply, dispatched on the class *)
Apply(f, a) ==
    IF f.kind = "brightness" THEN BrightnessApply(f, a)
    ELSE IF f.kind = "sobel" THEN SobelApply(f, a)
    ELSE IF f.kind = "retro" THEN RetroApply(f, a)
    ELSE ConvApply(f, a)

NoImage == [shape |-> <<>>, dtype |-> "none", a |-> NoArr]

(* the dtype of what self.apply returns *)
ResultDtype(f) ==
    IF f.kind = "brightness" THEN "int32" ELSE "float64"

(* the rank looked at after the transform ran *)
ApplyFilterRankCheckedLate(f, image) ==
    LET r == Apply(f, image.a)
    IN [flt |-> r.flt, err |-> "ValueError", res |-> NoArr, out |-> NoImage]

(* BaseFilter.apply_filter: [flt, err, res, out] *)
ApplyFilter(f, image) ==
    IF Len(image.shape) \notin {2, 3}
    THEN [flt |-> f, err |-> "ValueError", res |-> NoArr, out |-> NoImage]
    ELSE LET r == Apply(f, image.a)       \* image[:, :, np.newaxis] keeps the samples
         IN IF r.err # "none"
            THEN [flt |-> r.flt, err |-> r.err, res |-> NoArr, out |-> NoImage]
            ELSE LET clipped == ClipArr(r.a)
                     cast(y, x, ch) == AsType(clipped.at[y][x][ch], image.dtype)
                 IN [flt |-> r.flt, err |-> "none", res |-> r.a,
                     out |-> IF clipped.c = 1
                             THEN [shape |-> <<clipped.h, clipped.w>>,      \* squeeze(-1)
                                   dtype |-> ResultDtype(f),
                                   a |-> clipped]
                             ELSE [shape |-> <<clipped.h, clipped.w, clipped.c>>,
                                   dtype |-> image.dtype,
                                   a |-> Arr(clipped.h, clipped.w, clipped.c, cast)]]

-----------------------------------------------------------------------------
(* Constructor arguments *)

Strides == {<<I(1), I(1)>>, <<I(2), I(2)>>, <<I(1), I(2)>>, <<I(3), I(1)>>}

DefaultKw ==
    [kernel_radius |-> NoRadius, stride |-> <<I(1), I(1)>>, pad |-> NoPad,
     pad_val |-> F(0), bias |-> F(0), keep_dims |-> FALSE]

(* pad and keep_dims: no pad with and without keep_dims, an explicit pad *)
Paddings == {<<NoPad, TRUE>>, <<NoPad, FALSE>>, <<<<I(2), I(1)>>, FALSE>>}

(* pad_val and bias: the defaults, and values outside the sample range *)
Numerics == {<<F(0), F(0)>>, <<I(300), I(-40)>>}

(* every stride with every padding, pad_val and bias; an explicit pad       *)
(* together with keep_dims; an explicit zero pad                            *)
ValidKw ==
    {[DefaultKw EXCEPT !.stride = st, !.pad = pk[1], !.keep_dims = pk[2],
                       !.pad_val = n[1], !.bias = n[2]] :
        st \in Strides, pk \in Paddings, n \in Numerics}
    \cup
    {[DefaultKw EXCEPT !.pad = <<I(2), I(1)>>, !.keep_dims = TRUE],
     [DefaultKw EXCEPT !.pad = <<I(0), I(0)>>],
     [DefaultKw EXCEPT !.pad = <<I(0), I(0)>>, !.keep_dims = TRUE]}

(* keyword arguments _validate_params or the radius check rejects, and an   *)
(* explicit kernel_radius *)
OtherKw ==
    {[DefaultKw EXCEPT !.kernel_radius = r] :
        r \in {<<I(1), I(1)>>, <<I(1), I(2)>>, <<I(2), I(2)>>, <<F(1), F(1)>>,
               <<I(0), I(0)>>}}
    \cup {[DefaultKw EXCEPT !.stride = st] :
        st \in {<<I(0), I(1)>>, <<I(1), I(-1)>>, <<F(1), I(1)>>, <<S, I(1)>>}}
    \cup {[DefaultKw EXCEPT !.pad = pd] :
        pd \in {<<I(-1), I(0)>>, <<I(0), F(1)>>}}
    \cup {[DefaultKw EXCEPT !.pad_val = S], [DefaultKw EXCEPT !.bias = S]}

KwArgs == ValidKw \cup OtherKw

DynamicKernels == {KSobelX, KPerChannel}

Alphas == {-100, 0, 100, 300}

(* Box: (width, height), legal and not *)
BoxSizes ==
    {<<3, 3>>, <<3, 5>>, <<5, 3>>, <<1, 1>>, <<1, 3>>, <<2, 3>>, <<3, 23>>, <<0, 3>>}

(* Box: alpha in tenths; 0 and 2.0 are refused *)
BoxAlphas == {0, 2, 20}

(* keyword arguments passed on by Box and Sobel, keep_dims included *)
CatalogKw ==
    {[DefaultKw EXCEPT !.keep_dims = k, !.stride = st] :
        k \in BOOLEAN, st \in {<<I(1), I(1)>>, <<I(2), I(2)>>}}

SobelSizes == {3, 4, 5}

(* Retro: powers of two, and values that are not *)
BlockSizes == {-2, 0, 1, 2, 3, 4, 16}

RetroKw == {DefaultKw, [DefaultKw EXCEPT !.bias = I(-40)]}

NoArgs ==
    [cls |-> "none", kernels |-> <<>>, kw |-> DefaultKw, alpha |-> None,
     width |-> None, height |-> None, size |-> None, block_size |-> None]

(* every kernel of the instance has one channel or as many as the image *)
ChannelsFit(f, image) ==
    \A i \in 1..Len(f.kernels) : f.kernels[i].shape[3] \in {1, image.a.c}

-----------------------------------------------------------------------------
(* The pipeline: configurations and their validation *)

(* operations of a configuration: the type names a module of filters.catalog *)
(* and the other keys are the parameters *)
Operations ==
    {[type |-> "brightness", params |-> [alpha |-> 50]],
     [type |-> "brightness", params |-> [alpha |-> 300]],       \* out of range
     [type |-> "brightness", params |-> [beta |-> 1]],          \* no such parameter
     [type |-> "emboss", params |-> [direction |-> "top"]],
     [type |-> "emboss", params |-> [direction |-> "up"]],      \* no such direction
     [type |-> "blur", params |-> [strength |-> 1]]}            \* no such module

(* the lists of 0..MaxStages operations *)
OperationLists == UNION {[1..n -> Operations] : n \in 0..MaxStages}

(* Image.open(...).convert("RGB"): three channels of uint8 *)
InputImages == {Image(<<3, 3, 3>>, "grad"), Image(<<5, 4, 3>>, "grad")}

(* the 'output' key: absent, a path inside a directory, a bare file name *)
Outputs == {"absent", "out/result.png", "result.png"}

Configs ==
    [input : InputImages, operations : OperationLists,
     output : Outputs, display : BOOLEAN]

NoConfig ==
    [input |-> NoImage, operations |-> <<>>, output |-> "absent", display |-> FALSE]

(* the modules of filters.catalog a configuration here can name *)
CatalogModules == {"brightness", "emboss"}

(* inspect.signature(filter_class.__init__).parameters *)
Signature(type) ==
    IF type = "brightness" THEN {"self", "alpha"}
    ELSE {"self", "strength", "direction", "kwargs"}

(* validate_filter_config *)
ValidateFilterConfig(op) ==
    IF op.type \notin CatalogModules THEN "ImportError"
    ELSE IF DOMAIN op.params \ Signature(op.type) # {} THEN "ValueError"
    ELSE "none"

(* the loop of load_and_validate_config over the operations from the i-th on *)
RECURSIVE ValidateFrom(_, _)
ValidateFrom(ops, i) ==
    IF i > Len(ops) THEN "none"
    ELSE LET e == ValidateFilterConfig(ops[i])
         IN IF e # "none" THEN e ELSE ValidateFrom(ops, i + 1)

(* load_and_validate_config, for a configuration file that exists and       *)
(* names an input image that exists *)
LoadAndValidateConfig(cfg) ==
    IF cfg.output = "absent" /\ ~cfg.display THEN "ValueError"
    ELSE ValidateFrom(cfg.operations, 1)

(* the call of the constructor of the operation's class with its parameters *)
Construct(op) ==
    IF op.type = "brightness"
    THEN BrightnessInit(IF "alpha" \in DOMAIN op.params THEN op.params.alpha ELSE 1)
    ELSE EmbossInit(IF "strength" \in DOMAIN op.params THEN op.params.strength ELSE 1,
                    IF "direction" \in DOMAIN op.params THEN op.params.direction
                    ELSE "northeast",
                    DefaultKw)

(* every stage given the image the run was started on *)
StageInputOriginal(held, cfg) == cfg.input

(* the argument of filt.apply_filter: the image the run holds *)
StageInput(held, cfg) == held

(* os.path.dirname(output_path) *)
Dirname(path) == IF path = "out/result.png" THEN "out" ELSE ""

(* image_np.astype(np.uint8) *)
AsUint8(image) ==
    LET v(r, x, ch) == AsType(image.a.at[r][x][ch], "uint8")
    IN [shape |-> image.shape, dtype |-> "uint8",
        a |-> Arr(image.a.h, image.a.w, image.a.c, v)]

(* one entry of the record of a run *)
Event(op, stage, type, ok, input, output) ==
    [op |-> op, stage |-> stage, type |-> type, ok |-> ok,
     input |-> input, output |-> output]

-----------------------------------------------------------------------------
(* The state machine *)

Init ==
    /\ phase = "new"
    /\ args = NoArgs
    /\ flt = NoFilter
    /\ img = NoImage
    /\ res = NoArr
    /\ out = NoImage
    /\ err = "none"
    /\ warned = FALSE
    /\ pc = "idle"
    /\ config = NoConfig
    /\ idx = 0
    /\ image_np = NoImage
    /\ filt = NoFilter
    /\ raised = "none"
    /\ events = <<>>

PhaseAfter(r) == IF r.err = "none" THEN "ready" ELSE "failed"

(* StaticFilter(kernels, **kw) *)
NewStaticFilter ==
    /\ phase = "new"
    /\ \E kernels \in KernelLists, kw \in KwArgs :
        LET r == StaticInit(kernels, kw)
        IN /\ args' = [NoArgs EXCEPT !.cls = "StaticFilter", !.kernels = kernels,
                                     !.kw = kw]
           /\ phase' = PhaseAfter(r)
           /\ flt' = r.flt
           /\ err' = r.err
           /\ warned' = r.warned
    /\ UNCHANGED <<img, res, out>>
    /\ UNCHANGED run

(* a DynamicFilter subclass that keeps one kernel and folds each region     *)
(* against it *)
NewDynamicFilter ==
    /\ phase = "new"
    /\ \E kernel \in DynamicKernels, kw \in KwArgs :
        LET r == DynamicInit(kernel, kw)
        IN /\ args' = [NoArgs EXCEPT !.cls = "DynamicFilter", !.kernels = <<kernel>>,
                                     !.kw = kw]
           /\ phase' = PhaseAfter(r)
           /\ flt' = r.flt
           /\ err' = r.err
           /\ warned' = r.warned
    /\ UNCHANGED <<img, res, out>>
    /\ UNCHANGED run

(* Brightness(alpha) *)
NewBrightness ==
    /\ phase = "new"
    /\ \E alpha \in Alphas :
        LET r == BrightnessInit(alpha)
        IN /\ args' = [NoArgs EXCEPT !.cls = "Brightness", !.alpha = alpha]
           /\ phase' = PhaseAfter(r)
           /\ flt' = r.flt
           /\ err' = r.err
           /\ warned' = r.warned
    /\ UNCHANGED <<img, res, out>>
    /\ UNCHANGED run

(* Box(width=..., height=..., keep_dims=..., **kw) and Box(alpha=..., **kw) *)
NewBox ==
    /\ phase = "new"
    /\ \E kw \in CatalogKw :
         \E a \in ({<<None, wh[1], wh[2]>> : wh \in BoxSizes}
                    \cup {<<alpha, 3, 3>> : alpha \in BoxAlphas}) :
            LET r == BoxInit(a[1], a[2], a[3], kw.keep_dims, kw)
            IN /\ args' = [NoArgs EXCEPT !.cls = "Box", !.kw = kw, !.alpha = a[1],
                                         !.width = a[2], !.height = a[3]]
               /\ phase' = PhaseAfter(r)
               /\ flt' = r.flt
               /\ err' = r.err
               /\ warned' = r.warned
    /\ UNCHANGED <<img, res, out>>
    /\ UNCHANGED run

(* Sobel(size=..., keep_dims=..., **kw) *)
NewSobel ==
    /\ phase = "new"
    /\ \E size \in SobelSizes, kw \in CatalogKw :
        LET r == SobelInit(size, kw.keep_dims, kw)
        IN /\ args' = [NoArgs EXCEPT !.cls = "Sobel", !.kw = kw, !.size = size]
           /\ phase' = PhaseAfter(r)
           /\ flt' = r.flt
           /\ err' = r.err
           /\ warned' = r.warned
    /\ UNCHANGED <<img, res, out>>
    /\ UNCHANGED run

(* Retro(block_size=..., **kw) *)
NewRetro ==
    /\ phase = "new"
    /\ \E block_size \in BlockSizes, kw \in RetroKw :
        LET r == RetroInit(block_size, kw)
        IN /\ args' = [NoArgs EXCEPT !.cls = "Retro", !.kw = kw,
                                     !.block_size = block_size]
           /\ phase' = PhaseAfter(r)
           /\ flt' = r.flt
           /\ err' = r.err
           /\ warned' = r.warned
    /\ UNCHANGED <<img, res, out>>
    /\ UNCHANGED run

(* filt.apply_filter(image), on an instance that is not inside a call *)
CallApplyFilter ==
    /\ phase = "ready"
    /\ img = NoImage
    /\ \E image \in Images :
        /\ ChannelsFit(flt, image)
        /\ \E r \in {ApplyFilter(flt, image)} :
              /\ flt' = r.flt
              /\ img' = image
              /\ res' = r.res
              /\ out' = r.out
              /\ err' = r.err
    /\ UNCHANGED <<phase, args, warned>>
    /\ UNCHANGED run

(* the caller takes what the call returned or raised; the instance stays,   *)
(* and can be called again *)
TakeResult ==
    /\ phase = "ready"
    /\ img # NoImage
    /\ img' = NoImage
    /\ res' = NoArr
    /\ out' = NoImage
    /\ err' = "none"
    /\ UNCHANGED <<phase, args, flt, warned>>
    /\ UNCHANGED run

Next ==
    \/ NewStaticFilter
    \/ NewDynamicFilter
    \/ NewBrightness
    \/ NewBox
    \/ NewSobel
    \/ NewRetro
    \/ CallApplyFilter
    \/ TakeResult

Spec == Init /\ [][Next]_vars

-----------------------------------------------------------------------------
(* One run of run_from_config *)

(* lines 177-181: the configuration is loaded and validated, the image read *)
RunFromConfig ==
    /\ pc = "idle"
    /\ \E cfg \in Configs :
        LET e == LoadAndValidateConfig(cfg)
        IN /\ config' = cfg
           /\ raised' = e
           /\ pc' = IF e # "none" THEN "aborted" ELSE "loop"
           /\ image_np' = IF e # "none" THEN NoImage ELSE cfg.input
    /\ UNCHANGED <<idx, filt, events>>
    /\ UNCHANGED instance

(* line 185: filt is constructed for the next operation *)
BuildStage ==
    /\ pc = "loop"
    /\ idx < Len(config.operations)
    /\ \E op \in {config.operations[idx + 1]} :
       \E r \in {Construct(op)} :
          /\ events' = Append(events, Event("construct", idx + 1, op.type,
                                            r.err = "none", NoImage, NoImage))
          /\ filt' = r.flt
          /\ raised' = r.err
          /\ pc' = IF r.err # "none" THEN "aborted" ELSE "built"
    /\ UNCHANGED <<config, idx, image_np>>
    /\ UNCHANGED instance

(* line 188: image_np = filt.apply_filter(image_np) *)
ApplyStage ==
    /\ pc = "built"
    /\ \E op \in {config.operations[idx + 1]}, input \in {StageInput(image_np, config)} :
       \E r \in {ApplyFilter(filt, input)} :
          /\ events' = Append(events, Event("apply", idx + 1, op.type,
                                            r.err = "none", input, r.out))
          /\ filt' = r.flt
          /\ raised' = r.err
          /\ IF r.err # "none"
             THEN pc' = "aborted" /\ UNCHANGED <<idx, image_np>>
             ELSE pc' = "loop" /\ idx' = idx + 1 /\ image_np' = r.out
    /\ UNCHANGED config
    /\ UNCHANGED instance

(* lines 191-197, after the last operation: the image is saved when the     *)
(* configuration has an 'output' *)
SaveOutput ==
    /\ pc = "loop"
    /\ idx = Len(config.operations)
    /\ IF config.output = "absent"
       THEN pc' = "show" /\ UNCHANGED <<raised, events>>
       ELSE IF Dirname(config.output) = ""
       THEN /\ pc' = "aborted"                 \* os.makedirs('')
            /\ raised' = "FileNotFoundError"
            /\ UNCHANGED events
       ELSE /\ pc' = "show"
            /\ events' = Append(events, Event("save", 0, "none", TRUE,
                                              AsUint8(image_np), NoImage))
            /\ UNCHANGED raised
    /\ UNCHANGED <<config, idx, image_np, filt>>
    /\ UNCHANGED instance

(* lines 199-200: the image is displayed when the configuration has a       *)
(* 'display' *)
ShowImage ==
    /\ pc = "show"
    /\ pc' = "done"
    /\ events' = IF config.display
                 THEN Append(events, Event("show", 0, "none", TRUE,
                                           AsUint8(image_np), NoImage))
                 ELSE events
    /\ UNCHANGED <<config, idx, image_np, filt, raised>>
    /\ UNCHANGED instance

PipelineNext ==
    \/ RunFromConfig
    \/ BuildStage
    \/ ApplyStage
    \/ SaveOutput
    \/ ShowImage

PipelineSpec == Init /\ [][PipelineNext]_vars

-----------------------------------------------------------------------------
(* Vocabulary of the properties *)

IsConv == flt.kind \in {"static", "dynamic"}

(* apply_filter was called on the instance with an image of rank 2 or 3 *)
Called == phase = "ready" /\ img # NoImage /\ Len(img.shape) \in {2, 3}

(* ... and returned an image *)
Returned == Called /\ err = "none"

Channels(shape) == IF Len(shape) = 3 THEN shape[3] ELSE 1

InRange(v) == 0 <= v /\ v <= 255

StrideIs(sy, sx) == flt.stride_y = sy /\ flt.stride_x = sx

(* keyword arguments as the constructor's documentation asks for them: no   *)
(* kernel_radius, positive integer strides, an explicit pad of non-negative *)
(* integers if any, a numeric pad_val and bias *)
WellFormedKw(kw) ==
    /\ kw.kernel_radius = NoRadius
    /\ \A i \in 1..2 : kw.stride[i].ty = "int" /\ kw.stride[i].v >= 1
    /\ kw.pad # NoPad => \A i \in 1..2 : kw.pad[i].ty = "int" /\ kw.pad[i].v >= 0
    /\ kw.pad_val.ty \in {"int", "float"}
    /\ kw.bias.ty \in {"int", "float"}

AllRank3(ks) == \A i \in 1..Len(ks) : Len(ks[i].shape) = 3

RejectedShape(ks) ==
    \/ Len(ks) = 0
    \/ \E i, j \in 1..Len(ks) :
          ks[i].shape[1] # ks[j].shape[1] \/ ks[i].shape[2] # ks[j].shape[2]
    \/ \E i \in 1..Len(ks) : ks[i].shape[1] % 2 = 0 \/ ks[i].shape[2] % 2 = 0
    \/ \E i \in 1..Len(ks) : ks[i].shape[3] \notin {1, 3}

RadiusAtLeastOne(ks) ==
    \A i \in 1..Len(ks) : ks[i].shape[1] \div 2 >= 1 /\ ks[i].shape[2] \div 2 >= 1

(* a non-empty list of 3-D kernels of one odd (rows, cols) of radius at     *)
(* least 1, each of 1 or 3 channels *)
WellFormedKernels(ks) ==
    AllRank3(ks) /\ ~RejectedShape(ks) /\ RadiusAtLeastOne(ks)


-----------------------------------------------------------------------------
(* C1: every sample of the image apply_filter returns lies in [0,255], for  *)
(* the elementwise, the fixed-kernel and the programmable-region filter,    *)
(* whatever the input samples, kernel weights, pad value or bias.           *)
C1_OutputInRange ==
    Returned => \A v \in Samples(out.a) : InRange(v)

(* an elementwise filter whose transform returned a sample above 255 *)
C1_Witness ==
    /\ Returned
    /\ flt.kind = "brightness"
    /\ \E v \in Samples(res) : v > 255
    /\ \E v \in Samples(out.a) : v = 255

-----------------------------------------------------------------------------
(* C2: with keep_dims=True and no explicit pad, the output of apply has the *)
(* row extent and the column extent of the input, for every stride >= 1.    *)
(* Stated where the claim is at its strongest: the filter applies a single  *)
(* kernel, and its pad is the one computed from the extents of this image.  *)
C2_KeepDimsKeepsExtent ==
    ( /\ Returned
      /\ IsConv
      /\ Len(flt.kernels) = 1
      /\ args.kw.keep_dims
      /\ args.kw.pad = NoPad
      /\ flt.pad_y = KeepDimsPad(flt.stride_y, img.a.h, flt.kernel_height)
      /\ flt.pad_x = KeepDimsPad(flt.stride_x, img.a.w, flt.kernel_width) )
    => (res.h = img.a.h /\ res.w = img.a.w)

-----------------------------------------------------------------------------
(* C3: for every accepted input (rank 2, rank 3 with one channel, rank 3    *)
(* with three channels) and a transform that keeps the channel count, the   *)
(* image apply_filter returns has the rank and the channel count of the     *)
(* input.                                                                   *)
C3_RankAndChannelsKept ==
    (Returned /\ res.c = img.a.c)
    => /\ Len(out.shape) = Len(img.shape)
       /\ Channels(out.shape) = Channels(img.shape)

-----------------------------------------------------------------------------
(* C4: a fixed-kernel filter with the single 1x1 kernel of value 1, zero    *)
(* bias and zero pad can be constructed, and returns every image as given.  *)
C4_UnitKernelIsIdentity ==
    ( /\ phase # "new"
      /\ args.cls = "StaticFilter"
      /\ args.kernels = <<KOne>>
      /\ args.kw.bias.v = 0
      /\ args.kw.pad = <<I(0), I(0)>> )
    => /\ phase = "ready"
       /\ Called => (err = "none" /\ out.a = img.a)

-----------------------------------------------------------------------------
(* C5: one fixed-kernel filter holding [K1, K2] against the chain of two    *)
(* instances: K1 alone, its result clipped, fed to K2 alone, both built     *)
(* with the stride, pad, pad value and bias of the first.                   *)

TwoKernels == args.cls = "StaticFilter" /\ Len(args.kernels) = 2

ChainOfTwo ==
    LET first == StaticInit(<<args.kernels[1]>>, args.kw).flt
        second == StaticInit(<<args.kernels[2]>>, args.kw).flt
        r1 == ConvApply(first, img.a)
    IN IF r1.err # "none" THEN Raise(r1.err)
       ELSE LET r2 == ConvApply(second, ClipArr(r1.a))
            IN [err |-> r2.err, a |-> r2.a]

SameAsChain == err = ChainOfTwo.err /\ res = ChainOfTwo.a

ZeroPad ==
    \/ args.kw.pad = <<I(0), I(0)>>
    \/ args.kw.pad = NoPad /\ ~args.kw.keep_dims

(* C5, as claimed: with any explicit pad the filter holding [K1, K2] gives  *)
(* the result of the chain.                                                 *)
C5_TwoKernelsEqualChain ==
    (Called /\ TwoKernels /\ args.kw.pad # NoPad) => SameAsChain

(* C5, amended: the filter holding [K1, K2] gives the result of the chain   *)
(* when the pad is zero on both axes.                                       *)
C5_TwoKernelsEqualChainZeroPad ==
    (Called /\ TwoKernels /\ ZeroPad) => SameAsChain

(* a two-kernel filter with zero pad returned a non-empty image whose       *)
(* first stage was clipped *)
C5_Witness ==
    /\ Returned /\ TwoKernels /\ ZeroPad
    /\ res.h >= 1 /\ res.w >= 1
    /\ \E v \in Samples(res) : v > 0

-----------------------------------------------------------------------------
(* C6: a programmable-region filter whose region function returns           *)
(* compute_convolution(region, kernel) against the fixed-kernel filter with *)
(* that kernel and the same geometry.                                       *)

RegionConv ==
    /\ args.cls = "DynamicFilter"
    /\ StaticInit(args.kernels, args.kw).err = "none"   \* the radius is the kernel's

(* the fixed-kernel filter with the kernel and the geometry of the instance *)
StaticTwin ==
    [StaticInit(args.kernels, args.kw).flt EXCEPT !.pad_y = flt.pad_y,
                                                     !.pad_x = flt.pad_x]

SameAsStatic ==
    LET r == ConvApply(StaticTwin, img.a)
    IN err = r.err /\ res = r.a

(* the padded image is at least as large as the kernel on both axes *)
PaddedCoversKernel ==
    /\ img.a.h + 2 * flt.pad_y >= flt.kernel_height
    /\ img.a.w + 2 * flt.pad_x >= flt.kernel_width

-----------------------------------------------------------------------------
(* C7: over any sequence of calls on one neighborhood filter the pad is     *)
(* assigned at most once: an explicit pad is kept, also when keep_dims is   *)
(* set with it (the constructor succeeds and only warns), and a pad         *)
(* computed on the first apply is reused by every later apply, whatever the *)
(* extents of the later images.                                             *)

PadIsSet == flt.pad_y # None \/ flt.pad_x # None

ExplicitPadKept ==
    (phase = "ready" /\ IsConv /\ args.kw.pad # NoPad)
    => (flt.pad_y = args.kw.pad[1].v /\ flt.pad_x = args.kw.pad[2].v)

(* the constructor was given well-formed kernels and keyword arguments,     *)
(* with an explicit pad *)
ExplicitPadAccepted ==
    ( /\ phase # "new"
      /\ args.cls \in {"StaticFilter", "DynamicFilter"}
      /\ WellFormedKernels(args.kernels)
      /\ WellFormedKw(args.kw)
      /\ args.kw.pad # NoPad )
    => (phase = "ready" /\ (warned <=> args.kw.keep_dims))

C7_PadAssignedOnce ==
    /\ [][PadIsSet => (flt'.pad_y = flt.pad_y /\ flt'.pad_x = flt.pad_x)]_vars
    /\ [](ExplicitPadKept /\ ExplicitPadAccepted)

(* a pad computed from an earlier image is in use on an image of other      *)
(* extents *)
C7_Witness ==
    /\ Returned /\ IsConv
    /\ args.kw.pad = NoPad /\ args.kw.keep_dims
    /\ flt.pad_y # KeepDimsPad(flt.stride_y, img.a.h, flt.kernel_height)
    /\ flt.pad_x # KeepDimsPad(flt.stride_x, img.a.w, flt.kernel_width)

-----------------------------------------------------------------------------
(* C8: on the first apply of a neighborhood filter built without explicit   *)
(* pad, the pad on each axis is ((stride-1)*extent + kernel_size - stride)  *)
(* integer-divided by 2 when keep_dims was set, and 0 otherwise; a 10x10    *)
(* image, stride 2 and kernel radius 1 give pad 5 on both axes.             *)

FirstApply ==
    /\ phase = "ready" /\ IsConv
    /\ flt.pad_y = None /\ flt.pad_x = None
    /\ img = NoImage /\ img' # NoImage
    /\ Len(img'.shape) \in {2, 3}

C8_FirstApplyPad ==
    [][FirstApply =>
        LET H == img'.a.h
            W == img'.a.w
        IN /\ flt.keep_dims_with_pad =>
                /\ flt'.pad_y = ((flt.stride_y - 1) * H + (2 * flt.radius_y + 1)
                                 - flt.stride_y) \div 2
                /\ flt'.pad_x = ((flt.stride_x - 1) * W + (2 * flt.radius_x + 1)
                                 - flt.stride_x) \div 2
           /\ ~flt.keep_dims_with_pad => (flt'.pad_y = 0 /\ flt'.pad_x = 0)
           /\ ( /\ flt.keep_dims_with_pad
                /\ H = 10 /\ W = 10
                /\ StrideIs(2, 2)
                /\ flt.radius_y = 1 /\ flt.radius_x = 1 )
              => (flt'.pad_y = 5 /\ flt'.pad_x = 5)
    ]_vars

(* the scenario: keep_dims, a 10x10 image, stride 2, radius 1, pad 5 *)
C8_Witness ==
    /\ Called /\ IsConv
    /\ args.kw.pad = NoPad /\ args.kw.keep_dims
    /\ img.a.h = 10 /\ img.a.w = 10
    /\ StrideIs(2, 2)
    /\ flt.radius_y = 1 /\ flt.radius_x = 1
    /\ flt.pad_y = 5 /\ flt.pad_x = 5

-----------------------------------------------------------------------------
(* C9: for both convolution strategies and every padded image at least as   *)
(* large as the kernel, one kernel application yields an output whose       *)
(* extent on each axis is (padded_extent - kernel_extent) integer-divided   *)
(* by stride, plus 1, with the channel count unchanged; a 5x5               *)
(* single-channel image, a 3x3 kernel, zero pad and stride 1 yield 3x3.     *)

OneKernel ==
    /\ IsConv
    /\ Len(flt.kernels) = 1
    /\ flt.kernels[1].shape[1] = flt.kernel_height
    /\ flt.kernels[1].shape[2] = flt.kernel_width

-----------------------------------------------------------------------------
(* C10: constructing a fixed-kernel filter fails with an error, before any  *)
(* instance exists and before any convolution can run, whenever the kernel  *)
(* list is empty, two kernels differ in (rows, cols), the row or column     *)
(* count is even, or some kernel's channel count is not 1 or 3; it succeeds *)
(* for every list of 3-D kernels violating none of these with radius at     *)
(* least 1 (the other arguments being valid).                               *)

C10_KernelValidation ==
    (phase # "new" /\ args.cls = "StaticFilter" /\ AllRank3(args.kernels))
    => /\ RejectedShape(args.kernels)
          => /\ phase = "failed" /\ err # "none"
             /\ flt.kernels = <<>> /\ flt.radius_y = None /\ flt.stride_y = None
             /\ img = NoImage /\ res = NoArr /\ out = NoImage
       /\ ( /\ ~RejectedShape(args.kernels)
            /\ RadiusAtLeastOne(args.kernels)
            /\ WellFormedKw(args.kw) )
          => (phase = "ready" /\ flt.kernels = args.kernels)

(* the scenario: a kernel of shape (2,3,1) is rejected *)
C10_Witness ==
    /\ phase = "failed"
    /\ args.cls = "StaticFilter"
    /\ args.kernels = <<KEven>>
    /\ err = "ValueError"

-----------------------------------------------------------------------------
(* C11: constructing a neighborhood filter fails with an error and leaves   *)
(* every geometry field unassigned whenever a component of a given radius   *)
(* or of the stride is not a positive integer, a component of an explicit   *)
(* pad is not a non-negative integer, or pad_val or bias is not a number;   *)
(* a fixed-kernel filter also rejects a given kernel_radius that differs    *)
(* from the radius inferred from the shape of its kernels.                  *)

NotPositiveInt(x) == x.ty # "int" \/ x.v < 1

IllFormedKw(kw) ==
    \/ kw.kernel_radius # NoRadius /\ \E i \in 1..2 : NotPositiveInt(kw.kernel_radius[i])
    \/ \E i \in 1..2 : NotPositiveInt(kw.stride[i])
    \/ kw.pad # NoPad /\ \E i \in 1..2 : kw.pad[i].ty # "int" \/ kw.pad[i].v < 0
    \/ kw.pad_val.ty \notin {"int", "float"}
    \/ kw.bias.ty \notin {"int", "float"}

(* a fixed-kernel filter was given a radius other than half its kernel's    *)
(* rows and columns *)
RadiusDiffers ==
    /\ args.cls = "StaticFilter"
    /\ args.kw.kernel_radius # NoRadius
    /\ Len(args.kernels) > 0 /\ AllRank3(args.kernels)
    /\ \E i \in 1..2 : args.kw.kernel_radius[i].v # args.kernels[1].shape[i] \div 2

NoGeometry ==
    /\ flt.radius_y = None /\ flt.radius_x = None
    /\ flt.kernel_height = None /\ flt.kernel_width = None
    /\ flt.stride_y = None /\ flt.stride_x = None
    /\ flt.pad_y = None /\ flt.pad_x = None

C11_ParamValidation ==
    ( /\ phase # "new"
      /\ args.cls \in {"StaticFilter", "DynamicFilter"}
      /\ IllFormedKw(args.kw) \/ RadiusDiffers )
    => /\ phase = "failed"
       /\ err \in {"ValueError", "TypeError"}
       /\ NoGeometry
       /\ img = NoImage /\ out = NoImage

(* a programmable-region filter given a bias that is not a number *)
C11_Witness ==
    /\ phase = "failed"
    /\ args.cls = "DynamicFilter"
    /\ args.kw.bias = S
    /\ err = "TypeError"
    /\ NoGeometry

-----------------------------------------------------------------------------
(* C12: apply_filter takes an image of rank 2 or 3 and raises an error for  *)
(* every other rank; when it does, the transform (apply) has not run: no    *)
(* result exists, and every field of the instance, an uncomputed pad        *)
(* included, is as before the call.  For rank 2 or 3 the transform runs: a  *)
(* neighborhood filter has its pad afterwards, an elementwise filter        *)
(* returns.                                                                 *)

CallWith(rankOk) ==
    /\ phase = "ready"
    /\ img = NoImage /\ img' # NoImage
    /\ (Len(img'.shape) \in {2, 3}) = rankOk

C12_RankError ==
    /\ [][CallWith(FALSE) =>
            /\ err' = "ValueError"
            /\ flt' = flt
            /\ res' = NoArr /\ out' = NoImage]_vars
    /\ [][CallWith(TRUE) =>
            /\ flt.kind \in {"static", "dynamic"}
                  => (flt'.pad_y # None /\ flt'.pad_x # None)
            /\ flt.kind = "brightness" => (err' = "none" /\ out' # NoImage)]_vars

(* an image of rank 4 was refused by an instance whose pad is not computed  *)
C12_Witness ==
    /\ phase = "ready" /\ IsConv
    /\ Len(img.shape) = 4
    /\ err = "ValueError"
    /\ flt.pad_y = None /\ flt.keep_dims_with_pad
    /\ res = NoArr

-----------------------------------------------------------------------------
(* C13: in a run of the pipeline the stages are constructed and applied     *)
(* strictly in the declared order, stage i+1 receiving what stage i         *)
(* returned and stage 1 the input image; when constructing or applying a    *)
(* stage fails, nothing follows it: no later stage is constructed or        *)
(* applied, and no image is saved or displayed.                             *)

StageEvents == {k \in 1..Len(events) : events[k].op \in {"construct", "apply"}}

(* construct 1, apply 1, construct 2, apply 2, ...: each of the declared    *)
(* type *)
InDeclaredOrder ==
    \A k \in StageEvents :
        /\ events[k].stage = (k + 1) \div 2
        /\ events[k].op = (IF k % 2 = 1 THEN "construct" ELSE "apply")
        /\ events[k].stage <= Len(config.operations)
        /\ events[k].type = config.operations[events[k].stage].type

EachFedByPrevious ==
    \A k \in StageEvents :
        events[k].op = "apply"
        => events[k].input = (IF k = 2 THEN config.input ELSE events[k - 2].output)

(* a failure is the last thing the run did, and the run is over *)
FailureEndsRun ==
    \A k \in 1..Len(events) :
        ~events[k].ok => (k = Len(events) /\ pc = "aborted" /\ raised # "none")

(* an image is saved or displayed only after every stage was applied, and   *)
(* it is the image the last stage returned *)
OutputOnlyAfterAllStages ==
    \A k \in 1..Len(events) :
        events[k].op \in {"save", "show"}
        => /\ k > 2 * Len(config.operations)
           /\ \A j \in 1..(2 * Len(config.operations)) :
                 j \in StageEvents /\ events[j].ok
           /\ events[k].input
                = (IF Len(config.operations) = 0 THEN config.input
                   ELSE events[2 * Len(config.operations)].output)

C13_StagesInOrderAbortOnFailure ==
    /\ InDeclaredOrder
    /\ EachFedByPrevious
    /\ FailureEndsRun
    /\ OutputOnlyAfterAllStages
    /\ pc = "aborted" => \A k \in 1..Len(events) : events[k].op \notin {"save", "show"}

(* three stages, the second failed when applied after the first changed     *)
(* the image: the third was never constructed, nothing was saved or shown   *)
C13_Witness ==
    /\ pc = "aborted"
    /\ Len(config.operations) = 3
    /\ config.output = "out/result.png" /\ config.display
    /\ Len(events) = 4
    /\ events[2].ok /\ events[2].output # events[2].input
    /\ events[4].op = "apply" /\ ~events[4].ok
    /\ events[4].input = events[2].output

-----------------------------------------------------------------------------
(* C14: in a run of the pipeline every stage's filter has been constructed, *)
(* and every construction-time parameter error of any stage has been        *)
(* raised, before the first stage is applied to the image.                  *)
C14_AllBuiltBeforeFirstApply ==
    (\E k \in 1..Len(events) : events[k].op = "apply")
    => \A i \in 1..Len(config.operations) :
          \E k \in 1..Len(events) :
              /\ events[k].op = "construct" /\ events[k].stage = i
              /\ \A j \in 1..k : events[j].op # "apply"

-----------------------------------------------------------------------------
(* C15: for every legal block_size (a power of two) and every image,        *)
(* Retro.apply returns an image with the row and column extents of its      *)
(* input.  Stated for the images Retro.apply returns from: those at least   *)
(* as large as the averaging kernel.                                        *)
C15_RetroKeepsExtent ==
    (Returned /\ flt.kind = "retro")
    => (res.h = img.a.h /\ res.w = img.a.w)

-----------------------------------------------------------------------------
(* C16: a Sobel filter built with keep_dims=True, of size 3 or 5 and stride *)
(* 1, returns from apply an image with the row and column extents of its    *)
(* input.  Stated for the images Sobel.apply returns from.                   *)
C16_SobelKeepsExtent ==
    ( /\ Returned /\ flt.kind = "sobel"
      /\ args.size \in {3, 5}
      /\ args.kw.keep_dims
      /\ StrideIs(1, 1) )
    => (res.h = img.a.h /\ res.w = img.a.w)

-----------------------------------------------------------------------------
(* C17: Box built without alpha, with odd width w and odd height h in       *)
(* [1, 21], is constructed and holds one uniform kernel of h rows and w     *)
(* columns whose weights are 1/(w*h).                                       *)

OddInBoxRange(n) == 1 <= n /\ n <= 21 /\ n % 2 = 1

C17_BoxKernelShape ==
    ( /\ phase # "new" /\ args.cls = "Box"
      /\ args.alpha = None
      /\ OddInBoxRange(args.width) /\ OddInBoxRange(args.height) )
    => /\ phase = "ready"
       /\ Len(flt.kernels) = 1
       /\ flt.kernels[1].shape = <<args.height, args.width, 1>>
       /\ flt.kernels[1].den = args.width * args.height

-----------------------------------------------------------------------------
(* C18: a single-kernel neighborhood filter with stride 1 on both axes,     *)
(* keep_dims set and no explicit pad has, from its first apply on, a pad    *)
(* equal to the kernel radius on each axis whatever the extents of the      *)
(* image; every image passed to the instance, of whatever extents, comes    *)
(* back from apply with its own row and column extents.                     *)

SingleKernelStrideOne ==
    /\ IsConv
    /\ Len(flt.kernels) = 1
    /\ StrideIs(1, 1)
    /\ args.kw.keep_dims /\ args.kw.pad = NoPad

C18_StrideOnePadIsRadius ==
    (Called /\ SingleKernelStrideOne)
    => /\ flt.pad_y = flt.radius_y /\ flt.pad_x = flt.radius_x
       /\ OneKernel => err = "none"
       /\ err = "none" => (res.h = img.a.h /\ res.w = img.a.w)

(* a 3x5 kernel on an image of 3 rows and 1 column: pad (1, 2) *)
C18_Witness ==
    /\ Returned /\ SingleKernelStrideOne
    /\ flt.radius_y = 1 /\ flt.radius_x = 2
    /\ flt.pad_y = 1 /\ flt.pad_x = 2
    /\ img.a.h = 3 /\ img.a.w = 1
    /\ res.h = 3 /\ res.w = 1

====
